---- MODULE Spec2Model ----
(***************************************************************************)
(* The passcode game: the game state machine of                            *)
(* backend/app/services/game_service.py and guess_service.py over the      *)
(* in-memory store of backend/app/storage/memory_store.py.                 *)
(*                                                                         *)
(* Identifiers (game_..., player_..., guess_... + uuid) are modelled as    *)
(* positive integers handed out by counters; None is 0.  A 4-digit number  *)
(* (a str of four decimal digits) is a sequence of four digits; a secret   *)
(* that is None is the sequence NoSecret.  Display names and timestamps    *)
(* take no part in any decision and are left out of the records.           *)
(*                                                                         *)
(* A Game holds its players by reference: game.player_1 / game.player_2    *)
(* are the identifiers of the Player objects, which live in players_db     *)
(* (memory_store keeps the very same objects in both places).              *)
(***************************************************************************)
EXTENDS Integers, Sequences, FiniteSets, TLC

\* ---------------------------------------------------------------- bounds
MaxGames == 2
MaxPlayers == 2
MaxGuesses == 2
MaxCode == 2
MaxDigit == 3

\* ------------------------------------------------------------- constants
None == 0
NumLen == 4
NoSecret == <<-1>>

WAITING == "waiting"
IN_PROGRESS == "in_progress"
COMPLETED == "completed"

\* The 4-digit numbers offered to lock_number and process_guess.
CodeBook ==
  << <<1, 2, 3, 4>>, <<4, 3, 2, 1>>, <<5, 6, 7, 8>>,
     <<1, 1, 2, 3>>, <<1, 1, 1, 1>>, <<0, 0, 0, 0>> >>

Numbers == {CodeBook[k] : k \in 1..MaxCode}

GameIds == 1..MaxGames
PlayerIds == 1..MaxPlayers

\* The player identifiers callers pass: those that can be issued and one
\* that never is.
PlayerArgs == PlayerIds \cup {MaxPlayers + 1}

\* The 4-digit numbers over the digits 0..MaxDigit, for the scoring engine.
AllNumbers == [1..NumLen -> 0..MaxDigit]

\* "No score computed".
NoMatch == [correct_digits |-> -1, correct_positions |-> -1]

VARIABLES
  games_db,         \* memory_store.games_db: game_id -> Game
  players_db,       \* memory_store.players_db: player_id -> Player
  game_guesses_db,  \* memory_store.game_guesses_db: game_id -> list of Guess
  game_seq,         \* number of game ids generated so far
  player_seq,       \* number of player ids generated so far
  guess_seq,        \* number of guess ids generated so far
  response,         \* the last operation called and what it returned/raised
  score,            \* a call of calculate_match: its arguments and its result
  calls             \* the calls in progress against the database store

vars == <<games_db, players_db, game_guesses_db, game_seq, player_seq,
          guess_seq, response, score, calls>>

\* ------------------------------------------------------ scoring engine
Min(a, b) == IF a <= b THEN a ELSE b

DigitCount(s, d) == Cardinality({i \in 1..Len(s) : s[i] = d})

RECURSIVE SumMin(_, _, _)
SumMin(ds, secret, guess) ==
  IF ds = {} THEN 0
  ELSE LET d == CHOOSE x \in ds : TRUE
       IN  (IF DigitCount(secret, d) > 0
              THEN Min(DigitCount(secret, d), DigitCount(guess, d))
              ELSE 0)
           + SumMin(ds \ {d}, secret, guess)

\* calculate_match that counts the distinct digit values in common (sets
\* instead of occurrence counts).
calculate_match_distinct(secret, guess) ==
  [correct_digits |->
     Cardinality({guess[i] : i \in 1..Len(guess)}
                   \cap {secret[i] : i \in 1..Len(secret)}),
   correct_positions |-> Cardinality({i \in 1..NumLen : secret[i] = guess[i]})]

\* calculate_match that leaves the digits in the right position out of
\* correct_digits (it counts the misplaced digits only).
calculate_match_misplaced_only(secret, guess) ==
  [correct_digits |->
     SumMin({guess[i] : i \in 1..Len(guess)}, secret, guess)
       - Cardinality({i \in 1..NumLen : secret[i] = guess[i]}),
   correct_positions |-> Cardinality({i \in 1..NumLen : secret[i] = guess[i]})]

\* calculate_match without the min: every digit of the guess that occurs in
\* the secret counts.
calculate_match_no_min(secret, guess) ==
  [correct_digits |->
     Cardinality({i \in 1..Len(guess) : DigitCount(secret, guess[i]) > 0}),
   correct_positions |-> Cardinality({i \in 1..NumLen : secret[i] = guess[i]})]

\* calculate_match whose position test is "guess[i] in secret".
calculate_match_any_position(secret, guess) ==
  [correct_digits |-> SumMin({guess[i] : i \in 1..Len(guess)}, secret, guess),
   correct_positions |->
     Cardinality({i \in 1..NumLen : DigitCount(secret, guess[i]) > 0})]

calculate_match(secret, guess) ==
  [correct_digits |-> SumMin({guess[i] : i \in 1..Len(guess)}, secret, guess),
   correct_positions |-> Cardinality({i \in 1..NumLen : secret[i] = guess[i]})]

\* --------------------------------------------------------- game helpers
Player(secret, ready) == [secret_number |-> secret, is_ready |-> ready]

\* validate_turn that lets either player move.
validate_turn_always(game, player_id) == TRUE

validate_turn(game, player_id) == game.current_turn = player_id

\* switch_turn that forgets the else branch: the turn only ever passes to
\* player 2.
switch_turn_one_way(game) ==
  [game EXCEPT !.current_turn = game.player_2]

switch_turn(game) ==
  IF game.current_turn = game.player_1
    THEN [game EXCEPT !.current_turn = game.player_2]
    ELSE [game EXCEPT !.current_turn = game.player_1]

\* get_opponent that hands back the player asked about.
get_opponent_self(game, player_id) ==
  IF game.player_1 = player_id THEN game.player_1 ELSE game.player_2

get_opponent(game, player_id) ==
  IF game.player_1 = player_id THEN game.player_2 ELSE game.player_1

\* check_winner with the comparison the wrong way round.
check_winner_at_most(correct_positions) == correct_positions <= 4

check_winner(correct_positions) == correct_positions = 4

\* set_winner that stores the wrong status constant.
set_winner_wrong_status(game, winner_id) ==
  [game EXCEPT !.winner_id = winner_id, !.status = WAITING]

\* set_winner that records the winner and leaves the status as it was.
set_winner_keeps_status(game, winner_id) ==
  [game EXCEPT !.winner_id = winner_id]

set_winner(game, winner_id) ==
  [game EXCEPT !.winner_id = winner_id, !.status = COMPLETED]

\* ------------------------------------------------------------ responses
NoResult ==
  [guess_id |-> None, correct_digits |-> 0, correct_positions |-> 0,
   is_winner |-> FALSE, next_turn |-> None, winner_id |-> None,
   turn_number |-> 0]

\* What the caller of an operation observes: the operation, the game and
\* player it was called for, the exception raised ("OK" when it returned)
\* and, when it returned, the number it carried and the values returned.
Response(op, error, game_id, player_id, number, result) ==
  [op |-> op, error |-> error, game_id |-> game_id, player_id |-> player_id,
   number |-> number, result |-> result]

Raise(op, error, game_id, player_id) ==
  /\ response' = Response(op, error, game_id, player_id, NoSecret, NoResult)
  /\ UNCHANGED <<games_db, players_db, game_guesses_db, game_seq, player_seq,
                 guess_seq, score, calls>>

\* The two calls that may be in progress at the same time.
Calls == {1, 2}

\* A call that has not started: no arguments, no objects fetched.
NoCall ==
  [pc |-> "idle", op |-> "none", game_id |-> None, player_id |-> None,
   number |-> NoSecret, error |-> "OK", game |-> None, players |-> <<>>,
   guess |-> None, is_winner |-> FALSE]

\* ----------------------------------------------------------- operations
Init ==
  /\ games_db = [g \in {} |-> None]
  /\ players_db = [p \in {} |-> None]
  /\ game_guesses_db = [g \in {} |-> None]
  /\ game_seq = 0
  /\ player_seq = 0
  /\ guess_seq = 0
  /\ response = Response("init", "OK", None, None, NoSecret, NoResult)
  /\ score = [secret |-> NoSecret, guess |-> NoSecret, result |-> NoMatch,
              swapped |-> NoMatch]
  /\ calls = [c \in Calls |-> NoCall]

\* create_new_game that gives the creator the turn at once.
create_new_game_creator_turn ==
  /\ player_seq < MaxPlayers
  /\ game_seq < MaxGames
  /\ LET player_id == player_seq + 1
         game_id == game_seq + 1
         game == [player_1 |-> player_id, player_2 |-> None,
                  current_turn |-> player_id, status |-> WAITING,
                  winner_id |-> None, guesses |-> <<>>, turn_count |-> 0]
     IN  /\ players_db' = (player_id :> Player(NoSecret, FALSE)) @@ players_db
         /\ games_db' = (game_id :> game) @@ games_db
         /\ game_guesses_db' = (game_id :> <<>>) @@ game_guesses_db
         /\ player_seq' = player_id
         /\ game_seq' = game_id
         /\ response' = Response("create_game", "OK", game_id, player_id,
                                 NoSecret, NoResult)
  /\ UNCHANGED <<guess_seq, score, calls>>

\* game_service.create_new_game
create_new_game ==
  /\ player_seq < MaxPlayers
  /\ game_seq < MaxGames
  /\ LET player_id == player_seq + 1
         game_id == game_seq + 1
         game == [player_1 |-> player_id, player_2 |-> None,
                  current_turn |-> None, status |-> WAITING,
                  winner_id |-> None, guesses |-> <<>>, turn_count |-> 0]
     IN  /\ players_db' = (player_id :> Player(NoSecret, FALSE)) @@ players_db
         /\ games_db' = (game_id :> game) @@ games_db
         /\ game_guesses_db' = (game_id :> <<>>) @@ game_guesses_db
         /\ player_seq' = player_id
         /\ game_seq' = game_id
         /\ response' = Response("create_game", "OK", game_id, player_id,
                                 NoSecret, NoResult)
  /\ UNCHANGED <<guess_seq, score, calls>>

\* The exception join_game raises, in the order of its checks.
join_game_error(game_id) ==
  IF game_id \notin DOMAIN games_db THEN "GameNotFound"
  ELSE IF games_db[game_id].player_2 # None THEN "GameFull"
  ELSE IF games_db[game_id].status = COMPLETED THEN "GameAlreadyCompleted"
  ELSE "OK"

\* join_game that stores the new player in the creator's slot.
join_game_wrong_slot(game_id) ==
  LET error == join_game_error(game_id) IN
  IF error # "OK"
    THEN Raise("join_game", error, game_id, None)
    ELSE
      /\ player_seq < MaxPlayers
      /\ LET player_id == player_seq + 1 IN
           /\ players_db' = (player_id :> Player(NoSecret, FALSE)) @@ players_db
           /\ games_db' = [games_db EXCEPT ![game_id].player_1 = player_id]
           /\ player_seq' = player_id
           /\ response' = Response("join_game", "OK", game_id, player_id,
                                   NoSecret, NoResult)
      /\ UNCHANGED <<game_guesses_db, game_seq, guess_seq, score, calls>>

\* join_game that starts the game as soon as the second player is in.
join_game_starts(game_id) ==
  LET error == join_game_error(game_id) IN
  IF error # "OK"
    THEN Raise("join_game", error, game_id, None)
    ELSE
      /\ player_seq < MaxPlayers
      /\ LET player_id == player_seq + 1 IN
           /\ players_db' = (player_id :> Player(NoSecret, FALSE)) @@ players_db
           /\ games_db' = [games_db EXCEPT
                             ![game_id].player_2 = player_id,
                             ![game_id].status = IN_PROGRESS,
                             ![game_id].current_turn = games_db[game_id].player_1]
           /\ player_seq' = player_id
           /\ response' = Response("join_game", "OK", game_id, player_id,
                                   NoSecret, NoResult)
      /\ UNCHANGED <<game_guesses_db, game_seq, guess_seq, score, calls>>

\* game_service.join_game
join_game(game_id) ==
  LET error == join_game_error(game_id) IN
  IF error # "OK"
    THEN Raise("join_game", error, game_id, None)
    ELSE
      /\ player_seq < MaxPlayers
      /\ LET player_id == player_seq + 1 IN
           /\ players_db' = (player_id :> Player(NoSecret, FALSE)) @@ players_db
           /\ games_db' = [games_db EXCEPT ![game_id].player_2 = player_id]
           /\ player_seq' = player_id
           /\ response' = Response("join_game", "OK", game_id, player_id,
                                   NoSecret, NoResult)
      /\ UNCHANGED <<game_guesses_db, game_seq, guess_seq, score, calls>>

\* lock_player_number that takes any caller who is not player 1 for
\* player 2 (the identifier comparison of the second branch is missing).
lock_player_number_error_any_player_2(game_id, player_id) ==
  IF game_id \notin DOMAIN games_db THEN "GameNotFound"
  ELSE LET game == games_db[game_id] IN
    IF game.status = COMPLETED THEN "GameAlreadyCompleted"
    ELSE IF game.player_1 # None /\ game.player_1 = player_id
      THEN (IF players_db[game.player_1].is_ready
              THEN "NumberAlreadyLocked" ELSE "OK")
    ELSE IF game.player_2 # None
      THEN (IF players_db[game.player_2].is_ready
              THEN "NumberAlreadyLocked" ELSE "OK")
    ELSE "PlayerNotInGame"

\* lock_player_number without the is_ready check in the player_2 branch.
lock_player_number_error_relock(game_id, player_id) ==
  IF game_id \notin DOMAIN games_db THEN "GameNotFound"
  ELSE LET game == games_db[game_id] IN
    IF game.status = COMPLETED THEN "GameAlreadyCompleted"
    ELSE IF game.player_1 # None /\ game.player_1 = player_id
      THEN (IF players_db[game.player_1].is_ready
              THEN "NumberAlreadyLocked" ELSE "OK")
    ELSE IF game.player_2 # None /\ game.player_2 = player_id
      THEN "OK"
    ELSE "PlayerNotInGame"

\* The exception lock_player_number raises, in the order of its checks.
lock_player_number_error(game_id, player_id) ==
  IF game_id \notin DOMAIN games_db THEN "GameNotFound"
  ELSE LET game == games_db[game_id] IN
    IF game.status = COMPLETED THEN "GameAlreadyCompleted"
    ELSE IF game.player_1 # None /\ game.player_1 = player_id
      THEN (IF players_db[game.player_1].is_ready
              THEN "NumberAlreadyLocked" ELSE "OK")
    ELSE IF game.player_2 # None /\ game.player_2 = player_id
      THEN (IF players_db[game.player_2].is_ready
              THEN "NumberAlreadyLocked" ELSE "OK")
    ELSE "PlayerNotInGame"

\* The start check without player_2.is_ready.
start_if_ready_one_flag(game, players) ==
  IF /\ game.player_1 # None /\ players[game.player_1].is_ready
     /\ game.player_2 # None
    THEN [game EXCEPT !.status = IN_PROGRESS, !.current_turn = game.player_1]
    ELSE game

\* The start check that gives the first turn to player 2.
start_if_ready_joiner_first(game, players) ==
  IF /\ game.player_1 # None /\ players[game.player_1].is_ready
     /\ game.player_2 # None /\ players[game.player_2].is_ready
    THEN [game EXCEPT !.status = IN_PROGRESS, !.current_turn = game.player_2]
    ELSE game

\* lock_player_number, "Check if both players are ready to start the game":
\* the game as stored, given the players after the lock.
start_if_ready(game, players) ==
  IF /\ game.player_1 # None /\ players[game.player_1].is_ready
     /\ game.player_2 # None /\ players[game.player_2].is_ready
    THEN [game EXCEPT !.status = IN_PROGRESS, !.current_turn = game.player_1]
    ELSE game

\* game_service.lock_player_number
lock_player_number(game_id, player_id, secret_number) ==
  LET error == lock_player_number_error(game_id, player_id) IN
  IF error # "OK"
    THEN Raise("lock_number", error, game_id, player_id)
    ELSE
      LET players == [players_db EXCEPT
                        ![player_id] = Player(secret_number, TRUE)]
      IN  /\ players_db' = players
          /\ games_db' = [games_db EXCEPT
                            ![game_id] = start_if_ready(@, players)]
          /\ response' = Response("lock_number", "OK", game_id, player_id,
                                  secret_number, NoResult)
          /\ UNCHANGED <<game_guesses_db, game_seq, player_seq, guess_seq,
                         score, calls>>

\* process_guess without the WAITING check.
process_guess_error_no_waiting(game_id, player_id) ==
  IF game_id \notin DOMAIN games_db THEN "GameNotFound"
  ELSE LET game == games_db[game_id]
           is_player_1 == game.player_1 # None /\ game.player_1 = player_id
           is_player_2 == game.player_2 # None /\ game.player_2 = player_id
       IN
    IF game.status = COMPLETED THEN "GameAlreadyCompleted"
    ELSE IF ~is_player_1 /\ ~is_player_2 THEN "PlayerNotInGame"
    ELSE IF ~validate_turn(game, player_id) THEN "NotYourTurn"
    ELSE "OK"

\* process_guess without the COMPLETED check.
process_guess_error_no_completed(game_id, player_id) ==
  IF game_id \notin DOMAIN games_db THEN "GameNotFound"
  ELSE LET game == games_db[game_id]
           is_player_1 == game.player_1 # None /\ game.player_1 = player_id
           is_player_2 == game.player_2 # None /\ game.player_2 = player_id
       IN
    IF game.status = WAITING THEN "GameNotStarted"
    ELSE IF ~is_player_1 /\ ~is_player_2 THEN "PlayerNotInGame"
    ELSE IF ~validate_turn(game, player_id) THEN "NotYourTurn"
    ELSE "OK"

\* The exception process_guess raises, in the order of its checks.
process_guess_error(game_id, player_id) ==
  IF game_id \notin DOMAIN games_db THEN "GameNotFound"
  ELSE LET game == games_db[game_id]
           is_player_1 == game.player_1 # None /\ game.player_1 = player_id
           is_player_2 == game.player_2 # None /\ game.player_2 = player_id
       IN
    IF game.status = WAITING THEN "GameNotStarted"
    ELSE IF game.status = COMPLETED THEN "GameAlreadyCompleted"
    ELSE IF ~is_player_1 /\ ~is_player_2 THEN "PlayerNotInGame"
    ELSE IF ~validate_turn(game, player_id) THEN "NotYourTurn"
    ELSE "OK"

\* The guess record stamped with the turn count read before the increment.
Guess_stale_turn(guess_id, game_id, guesser, target, guessed_number, match, turn) ==
  [guess_id |-> guess_id, game_id |-> game_id,
   guesser_player_id |-> guesser, target_player_id |-> target,
   guessed_number |-> guessed_number,
   correct_digits |-> match.correct_digits,
   correct_positions |-> match.correct_positions,
   turn_number |-> turn - 1]

\* process_guess, "Create guess record".
Guess(guess_id, game_id, guesser, target, guessed_number, match, turn) ==
  [guess_id |-> guess_id, game_id |-> game_id,
   guesser_player_id |-> guesser, target_player_id |-> target,
   guessed_number |-> guessed_number,
   correct_digits |-> match.correct_digits,
   correct_positions |-> match.correct_positions,
   turn_number |-> turn]

\* The guess appended without the turn count incremented.
record_guess_no_increment(game, guess) ==
  [game EXCEPT !.guesses = Append(game.guesses, guess)]

\* process_guess, "Increment turn count" and "Add guess to game's guesses
\* list": the game object once the guess made at its new turn count is
\* appended.
record_guess(game, guess) ==
  [game EXCEPT !.turn_count = game.turn_count + 1,
               !.guesses = Append(game.guesses, guess)]

\* memory_store.add_guess
add_guess(db, guess) ==
  IF guess.game_id \notin DOMAIN db
    THEN (guess.game_id :> <<guess>>) @@ db
    ELSE [db EXCEPT ![guess.game_id] = Append(@, guess)]

\* process_guess from "Check for winner" on: the game as stored at the end.
finish_guess(game, player_id, is_winner) ==
  IF is_winner THEN set_winner(game, player_id) ELSE switch_turn(game)

\* The dict process_guess returns.
guess_result(guess, game, player_id, is_winner) ==
  [guess_id |-> guess.guess_id,
   correct_digits |-> guess.correct_digits,
   correct_positions |-> guess.correct_positions,
   is_winner |-> is_winner,
   next_turn |-> IF is_winner THEN None ELSE game.current_turn,
   winner_id |-> IF is_winner THEN player_id ELSE None,
   turn_number |-> game.turn_count]

\* guess_service.process_guess
process_guess(game_id, player_id, guessed_number) ==
  LET error == process_guess_error(game_id, player_id) IN
  IF error # "OK"
    THEN Raise("process_guess", error, game_id, player_id)
    ELSE
      /\ guess_seq < MaxGuesses
      /\ LET game == games_db[game_id]
             opponent == get_opponent(game, player_id)
             secret_number == players_db[opponent].secret_number
             match_result == calculate_match(secret_number, guessed_number)
             guess == Guess(guess_seq + 1, game_id, player_id, opponent,
                            guessed_number, match_result, game.turn_count + 1)
             is_winner == check_winner(match_result.correct_positions)
             stored == finish_guess(record_guess(game, guess), player_id,
                                    is_winner)
         IN  /\ guess_seq' = guess_seq + 1
             /\ game_guesses_db' = add_guess(game_guesses_db, guess)
             /\ games_db' = [games_db EXCEPT ![game_id] = stored]
             /\ response' = Response("process_guess", "OK", game_id, player_id,
                                     guessed_number,
                                     guess_result(guess, stored, player_id,
                                                  is_winner))
      /\ UNCHANGED <<players_db, game_seq, player_seq, score, calls>>

Slots(game) == {game.player_1, game.player_2} \ {None}

\* memory_store.get_guesses_by_game
get_guesses_by_game(game_id) ==
  IF game_id \in DOMAIN game_guesses_db THEN game_guesses_db[game_id] ELSE <<>>

\* delete_game that empties the whole dictionary.
delete_game_clear(db, game_id) == [g \in {} |-> None]

\* memory_store.delete_game
delete_game(db, game_id) == [g \in DOMAIN db \ {game_id} |-> db[g]]

\* delete_game_by_id that deletes the players of the game with it.
delete_game_by_id_with_players(game_id) ==
  IF game_id \notin DOMAIN games_db
    THEN Raise("delete_game", "GameNotFound", game_id, None)
    ELSE
      /\ games_db' = delete_game(games_db, game_id)
      /\ game_guesses_db' = delete_game(game_guesses_db, game_id)
      /\ players_db' = [p \in DOMAIN players_db \ Slots(games_db[game_id])
                          |-> players_db[p]]
      /\ response' = Response("delete_game", "OK", game_id, None, NoSecret,
                              NoResult)
      /\ UNCHANGED <<game_seq, player_seq, guess_seq, score, calls>>

\* game_service.delete_game_by_id
delete_game_by_id(game_id) ==
  IF game_id \notin DOMAIN games_db
    THEN Raise("delete_game", "GameNotFound", game_id, None)
    ELSE
      /\ games_db' = delete_game(games_db, game_id)
      /\ game_guesses_db' = delete_game(game_guesses_db, game_id)
      /\ response' = Response("delete_game", "OK", game_id, None, NoSecret,
                              NoResult)
      /\ UNCHANGED <<players_db, game_seq, player_seq, guess_seq, score, calls>>

\* What a read returns: the exception raised ("OK" when it returned) and
\* the value returned.
Read(error, value) == [error |-> error, value |-> value]

\* game_service.get_game_status
get_game_status(game_id) ==
  IF game_id \notin DOMAIN games_db
    THEN Read("GameNotFound", None)
    ELSE Read("OK", games_db[game_id])

\* guess_service.get_game_guesses
get_game_guesses(game_id) ==
  IF game_id \notin DOMAIN games_db
    THEN Read("GameNotFound", None)
    ELSE Read("OK", get_guesses_by_game(game_id))

\* player_service.get_player_by_id
get_player_by_id(player_id) ==
  IF player_id \notin DOMAIN players_db
    THEN Read("PlayerNotFound", None)
    ELSE Read("OK", players_db[player_id])

\* PlayerInfo that carries the secret number as well.
PlayerInfo_with_secret(players, player_id) ==
  [player_id |-> player_id, is_ready |-> players[player_id].is_ready,
   secret_number |-> players[player_id].secret_number]

\* schemas.responses.PlayerInfo, as the readers below fill it from the
\* Player object of the store contents (games, players).
PlayerInfo(players, player_id) ==
  [player_id |-> player_id, is_ready |-> players[player_id].is_ready]

\* player_service.get_player_info
get_player_info(games, players, game_id, player_id) ==
  IF game_id \notin DOMAIN games THEN Read("GameNotFound", None)
  ELSE IF player_id \notin Slots(games[game_id])
    THEN Read("PlayerNotInGame", None)
  ELSE Read("OK", PlayerInfo(players, player_id))

\* player_service.get_both_players_info
get_both_players_info(games, players, game_id) ==
  IF game_id \notin DOMAIN games THEN Read("GameNotFound", None)
  ELSE LET game == games[game_id] IN
    Read("OK",
         [player_1 |-> <<PlayerInfo(players, game.player_1)>>,
          player_2 |-> IF game.player_2 # None
                         THEN <<PlayerInfo(players, game.player_2)>>
                         ELSE <<>>])

\* schemas.responses.GameStatusResponse, as routers.games fills it from a
\* Game object (an Optional value is a sequence of at most one element).
GameStatusResponse(games, players, game_id) ==
  LET game == games[game_id] IN
  [game_id |-> game_id,
   status |-> game.status,
   player_1 |-> <<PlayerInfo(players, game.player_1)>>,
   player_2 |-> IF game.player_2 # None
                  THEN <<PlayerInfo(players, game.player_2)>>
                  ELSE <<>>,
   current_turn |-> game.current_turn,
   turn_count |-> game.turn_count,
   winner_id |-> game.winner_id]

\* routers.games.get_game
get_game_response(games, players, game_id) ==
  IF game_id \notin DOMAIN games THEN Read("GameNotFound", None)
  ELSE Read("OK", GameStatusResponse(games, players, game_id))

\* routers.games.list_games
list_games(games, players) ==
  [game_id \in DOMAIN games |-> GameStatusResponse(games, players, game_id)]

\* get_guesses_by_player that filters on the target of the guess.
get_guesses_by_player_target(game_id, player_id) ==
  SelectSeq(get_guesses_by_game(game_id),
            LAMBDA guess : guess.target_player_id = player_id)

\* memory_store.get_guesses_by_player
get_guesses_by_player(game_id, player_id) ==
  SelectSeq(get_guesses_by_game(game_id),
            LAMBDA guess : guess.guesser_player_id = player_id)

\* guess_service.get_player_guesses
get_player_guesses(game_id, player_id) ==
  IF game_id \notin DOMAIN games_db
    THEN Read("GameNotFound", None)
    ELSE Read("OK", get_guesses_by_player(game_id, player_id))

\* The numbers a call is tried with.  The checks that refuse a call never
\* read its number and a refusal records none, so one number stands for all
\* of them in a refused call.
Offered(error) == IF error = "OK" THEN Numbers ELSE {CodeBook[1]}

Next ==
  \/ create_new_game
  \/ \E game_id \in GameIds : join_game(game_id)
  \/ \E game_id \in GameIds, player_id \in PlayerArgs :
       \E secret_number \in Offered(lock_player_number_error(game_id, player_id)) :
         lock_player_number(game_id, player_id, secret_number)
  \/ \E game_id \in GameIds, player_id \in PlayerArgs :
       \E guessed_number \in Offered(process_guess_error(game_id, player_id)) :
         process_guess(game_id, player_id, guessed_number)
  \/ \E game_id \in GameIds : delete_game_by_id(game_id)

Spec == Init /\ [][Next]_vars

\* ------------------------------------------------------ the sample game
\* The numbers the sample game is played with: 1234 and 5678.
ScenarioNumbers == {CodeBook[1], CodeBook[3]}

ScenarioOffered(error) ==
  IF error = "OK" THEN ScenarioNumbers ELSE {CodeBook[1]}

\* The operations, called with the numbers of the sample game.
ScenarioNext ==
  \/ create_new_game
  \/ \E game_id \in GameIds : join_game(game_id)
  \/ \E game_id \in GameIds, player_id \in PlayerArgs :
       \E secret_number \in
             ScenarioOffered(lock_player_number_error(game_id, player_id)) :
         lock_player_number(game_id, player_id, secret_number)
  \/ \E game_id \in GameIds, player_id \in PlayerArgs :
       \E guessed_number \in
             ScenarioOffered(process_guess_error(game_id, player_id)) :
         process_guess(game_id, player_id, guessed_number)
  \/ \E game_id \in GameIds : delete_game_by_id(game_id)

SpecScenario == Init /\ [][ScenarioNext]_vars

\* ------------------------------------ the services called directly
\* utils.validators.is_valid_4_digit_number: exactly four characters, each
\* a decimal digit (a character that is no digit is a value above 9).
is_valid_4_digit_number(number) ==
  /\ Len(number) = NumLen
  /\ \A i \in 1..Len(number) : number[i] \in 0..9

\* Strings that LockNumberRequest rejects: "12345" and "123a".
Malformed == {<<1, 2, 3, 4, 5>>, <<1, 2, 3, 10>>}

DirectOffered(error) ==
  IF error = "OK" THEN Numbers \cup Malformed ELSE {CodeBook[1]}

\* The services called without the request schemas in front:
\* lock_player_number takes any string for secret_number.
DirectNext ==
  \/ create_new_game
  \/ \E game_id \in GameIds : join_game(game_id)
  \/ \E game_id \in GameIds, player_id \in PlayerArgs :
       \E secret_number \in
             DirectOffered(lock_player_number_error(game_id, player_id)) :
         lock_player_number(game_id, player_id, secret_number)
  \/ \E game_id \in GameIds, player_id \in PlayerArgs :
       \E guessed_number \in Offered(process_guess_error(game_id, player_id)) :
         process_guess(game_id, player_id, guessed_number)
  \/ \E game_id \in GameIds : delete_game_by_id(game_id)

SpecDirect == Init /\ [][DirectNext]_vars

\* ------------------------------------- calls against the database store
\* With the database store (config.use_supabase) a service call is a
\* sequence of persistence calls on rows that other calls read and write
\* in between: lock_player_number is get_game, update_game; process_guess
\* is get_game, add_guess, update_game.  Each persistence call is one step.
\* Here games_db is the games table (its rows carry no guesses),
\* players_db the players table and game_guesses_db the guesses table.

\* supabase_store.get_game: the Game object built from the game row and the
\* guess rows of the game.
get_game(game_id) ==
  [games_db[game_id] EXCEPT !.guesses = get_guesses_by_game(game_id)]

\* supabase_store.get_game, "Fetch players": the Player objects attached to
\* the Game object.
get_players(game_id) ==
  [p \in Slots(games_db[game_id]) |-> players_db[p]]

\* A call that is over: what it raised ("OK" when it returned) and, when it
\* returned, its arguments; the objects it fetched are gone.
Finished(call, error) ==
  IF error = "OK"
    THEN [NoCall EXCEPT !.pc = "done", !.op = call.op,
                        !.game_id = call.game_id,
                        !.player_id = call.player_id, !.number = call.number]
    ELSE [NoCall EXCEPT !.pc = "done", !.op = call.op, !.error = error]

\* A call that starts.
Started(op, game_id, player_id, number) ==
  [NoCall EXCEPT !.op = op, !.game_id = game_id, !.player_id = player_id,
                 !.number = number]

\* supabase_store.update_game by call c: both Player objects of the Game
\* object are written to their rows, then the game row.
update_game(c) ==
  LET call == calls[c] IN
  /\ players_db' = [p \in DOMAIN players_db |->
                      IF p \in DOMAIN call.players
                        THEN call.players[p] ELSE players_db[p]]
  /\ games_db' = [games_db EXCEPT
                    ![call.game_id] =
                      [call.game EXCEPT !.guesses = games_db[call.game_id].guesses]]
  /\ calls' = [calls EXCEPT ![c] = Finished(call, "OK")]
  /\ UNCHANGED <<game_guesses_db, game_seq, player_seq, guess_seq, response,
                 score>>

\* lock_player_number up to its update_game: get_game, the checks, and the
\* secret and the start of the game set on the objects fetched.
lock_number_get_game(c, game_id, player_id, secret_number) ==
  /\ calls[c].pc \in {"idle", "done"}
  /\ LET call == Started("lock_number", game_id, player_id, secret_number)
         error == lock_player_number_error(game_id, player_id)
     IN  IF error # "OK"
           THEN calls' = [calls EXCEPT ![c] = Finished(call, error)]
           ELSE LET players == [get_players(game_id) EXCEPT
                                  ![player_id] = Player(secret_number, TRUE)]
                IN  calls' = [calls EXCEPT ![c] =
                       [call EXCEPT
                          !.pc = "update_game",
                          !.players = players,
                          !.game = start_if_ready(get_game(game_id), players)]]
  /\ UNCHANGED <<games_db, players_db, game_guesses_db, game_seq, player_seq,
                 guess_seq, response, score>>

\* lock_player_number, store.update_game(game)
lock_number_update_game(c) ==
  /\ calls[c].pc = "update_game"
  /\ calls[c].op = "lock_number"
  /\ update_game(c)

\* process_guess up to its add_guess: get_game, the checks, the score and
\* the Guess object.
process_guess_get_game(c, game_id, player_id, guessed_number) ==
  /\ calls[c].pc \in {"idle", "done"}
  /\ LET call == Started("process_guess", game_id, player_id, guessed_number)
         error == process_guess_error(game_id, player_id)
     IN  IF error # "OK"
           THEN /\ calls' = [calls EXCEPT ![c] = Finished(call, error)]
                /\ UNCHANGED guess_seq
           ELSE /\ guess_seq < MaxGuesses
                /\ LET game == get_game(game_id)
                       players == get_players(game_id)
                       opponent == get_opponent(game, player_id)
                       match_result ==
                         calculate_match(players[opponent].secret_number,
                                         guessed_number)
                       guess == Guess(guess_seq + 1, game_id, player_id,
                                      opponent, guessed_number, match_result,
                                      game.turn_count + 1)
                   IN  calls' = [calls EXCEPT ![c] =
                          [call EXCEPT
                             !.pc = "add_guess",
                             !.players = players,
                             !.game = game,
                             !.guess = guess,
                             !.is_winner =
                               check_winner(match_result.correct_positions)]]
                /\ guess_seq' = guess_seq + 1
  /\ UNCHANGED <<games_db, players_db, game_guesses_db, game_seq, player_seq,
                 response, score>>

\* process_guess, store.add_guess(guess), and what follows on the Game
\* object up to update_game: the guess appended, the winner set or the
\* turn switched.
process_guess_add_guess(c) ==
  LET call == calls[c] IN
  /\ call.pc = "add_guess"
  /\ game_guesses_db' = add_guess(game_guesses_db, call.guess)
  /\ calls' = [calls EXCEPT ![c] =
        [call EXCEPT
           !.pc = "update_game",
           !.game = finish_guess(record_guess(call.game, call.guess),
                                 call.player_id, call.is_winner)]]
  /\ UNCHANGED <<games_db, players_db, game_seq, player_seq, guess_seq,
                 response, score>>

\* process_guess, store.update_game(game) (in set_winner for a winning
\* guess).
process_guess_update_game(c) ==
  /\ calls[c].pc = "update_game"
  /\ calls[c].op = "process_guess"
  /\ update_game(c)

\* A game that two players have joined and nobody has locked a number in.
ConcurrentInit ==
  /\ games_db = (1 :> [player_1 |-> 1, player_2 |-> 2, current_turn |-> None,
                       status |-> WAITING, winner_id |-> None,
                       guesses |-> <<>>, turn_count |-> 0])
  /\ players_db = (1 :> Player(NoSecret, FALSE)) @@ (2 :> Player(NoSecret, FALSE))
  /\ game_guesses_db = (1 :> <<>>)
  /\ game_seq = 1
  /\ player_seq = 2
  /\ guess_seq = 0
  /\ response = Response("join_game", "OK", 1, 2, NoSecret, NoResult)
  /\ score = [secret |-> NoSecret, guess |-> NoSecret, result |-> NoMatch,
              swapped |-> NoMatch]
  /\ calls = [c \in Calls |-> NoCall]

ConcurrentNext ==
  \E c \in Calls :
    \/ \E game_id \in GameIds, player_id \in PlayerArgs :
         \E secret_number \in Offered(lock_player_number_error(game_id, player_id)) :
           lock_number_get_game(c, game_id, player_id, secret_number)
    \/ lock_number_update_game(c)
    \/ \E game_id \in GameIds, player_id \in PlayerArgs :
         \E guessed_number \in Offered(process_guess_error(game_id, player_id)) :
           process_guess_get_game(c, game_id, player_id, guessed_number)
    \/ process_guess_add_guess(c)
    \/ process_guess_update_game(c)

SpecConcurrent == ConcurrentInit /\ [][ConcurrentNext]_vars

\* A game in progress: both players have locked a number and nobody has
\* guessed.
GuessingInit ==
  /\ games_db = (1 :> [player_1 |-> 1, player_2 |-> 2, current_turn |-> 1,
                       status |-> IN_PROGRESS, winner_id |-> None,
                       guesses |-> <<>>, turn_count |-> 0])
  /\ \E secret_1 \in Numbers, secret_2 \in Numbers :
       /\ players_db = (1 :> Player(secret_1, TRUE)) @@ (2 :> Player(secret_2, TRUE))
       /\ response = Response("lock_number", "OK", 1, 2, secret_2, NoResult)
  /\ game_guesses_db = (1 :> <<>>)
  /\ game_seq = 1
  /\ player_seq = 2
  /\ guess_seq = 0
  /\ score = [secret |-> NoSecret, guess |-> NoSecret, result |-> NoMatch,
              swapped |-> NoMatch]
  /\ calls = [c \in Calls |-> NoCall]

\* The process_guess calls alone.
GuessingNext ==
  \E c \in Calls :
    \/ \E game_id \in GameIds, player_id \in PlayerArgs :
         \E guessed_number \in Offered(process_guess_error(game_id, player_id)) :
           process_guess_get_game(c, game_id, player_id, guessed_number)
    \/ process_guess_add_guess(c)
    \/ process_guess_update_game(c)

SpecConcurrentGuesses == GuessingInit /\ [][GuessingNext]_vars

\* ------------------------------------------------- the scoring engine alone
\* Every pair of 4-digit numbers over 0..MaxDigit, not yet scored; no game.
ScoreInit ==
  /\ games_db = [g \in {} |-> None]
  /\ players_db = [p \in {} |-> None]
  /\ game_guesses_db = [g \in {} |-> None]
  /\ game_seq = 0
  /\ player_seq = 0
  /\ guess_seq = 0
  /\ response = Response("init", "OK", None, None, NoSecret, NoResult)
  /\ \E secret \in AllNumbers, guess \in AllNumbers :
       score = [secret |-> secret, guess |-> guess, result |-> NoMatch,
                swapped |-> NoMatch]
  /\ calls = [c \in Calls |-> NoCall]

\* guess_service.calculate_match called on the pair, and on the pair with
\* its arguments exchanged.
score_pair ==
  /\ score.result = NoMatch
  /\ score' = [score EXCEPT
                 !.result = calculate_match(score.secret, score.guess),
                 !.swapped = calculate_match(score.guess, score.secret)]
  /\ UNCHANGED <<games_db, players_db, game_guesses_db, game_seq, player_seq,
                 guess_seq, response, calls>>

ScoreNext == score_pair

SpecScore == ScoreInit /\ [][ScoreNext]_vars

\* ======================================================================
\* Properties
\* ======================================================================
\* The step just taken is a call of op on game g (every operation leaves
\* its name and arguments in response).
Called(op, g) == response'.op = op /\ response'.game_id = g

\* The step just taken is a call of op on game g that returned.
Returned(op, g) == Called(op, g) /\ response'.error = "OK" /\ vars' # vars

\* C1: in every reachable state the stored current-turn pointer of a game
\* is non-absent only while status = IN_PROGRESS, and when non-absent it
\* is the identifier of slot 1 or slot 2 (so it is absent in WAITING and
\* absent again once a winning guess has COMPLETED the game).
C1_CurrentTurnOnlyInProgress ==
  \A g \in DOMAIN games_db :
    LET game == games_db[g] IN
      game.current_turn # None =>
        /\ game.status = IN_PROGRESS
        /\ game.current_turn \in Slots(game)

\* C2: once a game is COMPLETED, every join_game on it fails with
\* GameAlreadyCompleted and with no other error kind.
C2_JoinCompletedFails ==
  [][\A g \in DOMAIN games_db :
       (games_db[g].status = COMPLETED /\ Called("join_game", g))
         => response'.error = "GameAlreadyCompleted"]_vars

\* C3: once a game is COMPLETED, every lock_number and process_guess on it,
\* by any player identifier, fails with GameAlreadyCompleted and leaves the
\* game (status, winner, turn counter, guess sequence), its stored guesses
\* and the players (their secrets) unchanged.
C3_LockGuessCompletedFails ==
  [][\A g \in DOMAIN games_db :
       (/\ games_db[g].status = COMPLETED
        /\ (Called("lock_number", g) \/ Called("process_guess", g)))
         => /\ response'.error = "GameAlreadyCompleted"
            /\ g \in DOMAIN games_db'
            /\ games_db'[g] = games_db[g]
            /\ game_guesses_db' = game_guesses_db
            /\ players_db' = players_db]_vars

\* C3 witness: a guess on a COMPLETED game by an identifier that is in
\* neither slot was refused with GameAlreadyCompleted.
C3_Witness ==
  /\ response.op = "process_guess"
  /\ response.error = "GameAlreadyCompleted"
  /\ response.game_id \in DOMAIN games_db
  /\ games_db[response.game_id].status = COMPLETED
  /\ response.player_id \notin Slots(games_db[response.game_id])

\* C4: the status of a game changes only by WAITING -> IN_PROGRESS and
\* IN_PROGRESS -> COMPLETED: never backward, never WAITING -> COMPLETED,
\* and never away from COMPLETED.
C4_StatusMonotonic ==
  [][\A g \in DOMAIN games_db \cap DOMAIN games_db' :
       \/ games_db'[g].status = games_db[g].status
       \/ games_db[g].status = WAITING /\ games_db'[g].status = IN_PROGRESS
       \/ games_db[g].status = IN_PROGRESS /\ games_db'[g].status = COMPLETED
    ]_vars

\* C4 witness: a game has just gone IN_PROGRESS -> COMPLETED by a guess.
C4_Witness ==
  /\ response.op = "process_guess"
  /\ response.error = "OK"
  /\ response.game_id \in DOMAIN games_db
  /\ games_db[response.game_id].status = COMPLETED

\* C5: in every reachable state the turn counter of a game equals the
\* number of guesses in the game's own guess sequence and the number of
\* guesses the by-game query returns.
C5_TurnCountIsGuessCount ==
  \A g \in DOMAIN games_db :
    /\ games_db[g].turn_count = Len(games_db[g].guesses)
    /\ games_db[g].turn_count = Len(get_guesses_by_game(g))

\* C5 witness: a game with two recorded guesses.
C5_Witness ==
  \E g \in DOMAIN games_db :
    games_db[g].turn_count = 2 /\ Len(get_guesses_by_game(g)) = 2

\* The slot of game that is not player p.
OtherSlot(game, p) == IF p = game.player_1 THEN game.player_2 ELSE game.player_1

\* C6: every successful non-winning process_guess by the holder of the turn
\* sets current-turn to the other slot's identifier (slot 1 -> slot 2 and
\* slot 2 -> slot 1) and returns it as next-turn; every successful
\* process_guess, winning or not, increments the turn counter by exactly 1.
C6_TurnSwitchAndCount ==
  [][\A g \in DOMAIN games_db :
       Returned("process_guess", g) =>
         LET p == response'.player_id
             other == OtherSlot(games_db[g], p)
         IN  /\ games_db[g].current_turn = p
             /\ games_db'[g].turn_count = games_db[g].turn_count + 1
             /\ response'.result.turn_number = games_db'[g].turn_count
             /\ ~response'.result.is_winner =>
                  /\ other \in Slots(games_db[g]) \ {p}
                  /\ games_db'[g].current_turn = other
                  /\ response'.result.next_turn = other]_vars

\* C6 witness: slot 2 has just made a non-winning guess and the turn is
\* back with slot 1.
C6_Witness ==
  /\ response.op = "process_guess"
  /\ response.error = "OK"
  /\ ~response.result.is_winner
  /\ response.game_id \in DOMAIN games_db
  /\ response.player_id = games_db[response.game_id].player_2
  /\ games_db[response.game_id].current_turn
       = games_db[response.game_id].player_1
  /\ response.result.next_turn = games_db[response.game_id].player_1

\* The number of positions at which two 4-digit numbers agree.
PositionsEqual(a, b) == Cardinality({i \in 1..4 : a[i] = b[i]})

\* C7: a successful process_guess whose number has correct_positions = 4
\* sets winner to the guesser and status to COMPLETED and returns
\* is_winner = true, winner = the guesser, next-turn absent; one with
\* correct_positions < 4 leaves winner absent and status IN_PROGRESS and
\* returns is_winner = false with winner absent.
C7_WinOutcome ==
  [][\A g \in DOMAIN games_db :
       Returned("process_guess", g) =>
         LET p == response'.player_id
             secret == players_db[OtherSlot(games_db[g], p)].secret_number
             positions == PositionsEqual(secret, response'.number)
         IN  /\ response'.result.correct_positions = positions
             /\ positions = 4 =>
                  /\ games_db'[g].winner_id = p
                  /\ games_db'[g].status = COMPLETED
                  /\ response'.result.is_winner
                  /\ response'.result.winner_id = p
                  /\ response'.result.next_turn = None
             /\ positions < 4 =>
                  /\ games_db'[g].winner_id = None
                  /\ games_db'[g].status = IN_PROGRESS
                  /\ ~response'.result.is_winner
                  /\ response'.result.winner_id = None]_vars

\* C7 witness: a winning guess by slot 2 has just completed a game.
C7_Witness ==
  /\ response.op = "process_guess"
  /\ response.error = "OK"
  /\ response.result.is_winner
  /\ response.result.correct_positions = 4
  /\ response.game_id \in DOMAIN games_db
  /\ games_db[response.game_id].status = COMPLETED
  /\ games_db[response.game_id].winner_id = response.player_id
  /\ response.player_id = games_db[response.game_id].player_2

\* Both slots of game are populated and both readiness flags are true.
BothReady(game, players) ==
  /\ game.player_2 # None
  /\ players[game.player_1].is_ready
  /\ players[game.player_2].is_ready

\* C8: in every reachable state a game is WAITING if and only if it is not
\* the case that both slots are populated and both readiness flags are
\* true; and the step WAITING -> IN_PROGRESS is exactly the successful
\* lock_number call that makes the second readiness flag true, whatever the
\* order of join and locks.
C8_AutoStart ==
  /\ [](\A g \in DOMAIN games_db :
          games_db[g].status = WAITING <=> ~BothReady(games_db[g], players_db))
  /\ [][\A g \in DOMAIN games_db \cap DOMAIN games_db' :
          (games_db[g].status = WAITING /\ games_db'[g].status = IN_PROGRESS)
            <=> /\ Returned("lock_number", g)
                /\ ~BothReady(games_db[g], players_db)
                /\ BothReady(games_db'[g], players_db')]_vars

\* C8 witness: the lock that made the second readiness flag true (here
\* slot 2's) has just started the game.
C8_Witness ==
  /\ response.op = "lock_number"
  /\ response.error = "OK"
  /\ response.game_id \in DOMAIN games_db
  /\ games_db[response.game_id].status = IN_PROGRESS
  /\ games_db[response.game_id].turn_count = 0
  /\ response.player_id = games_db[response.game_id].player_2
  /\ BothReady(games_db[response.game_id], players_db)

\* C9: when a game becomes IN_PROGRESS, current-turn is set to slot 1's
\* identifier whichever player locked last, so the first recorded guess of
\* every game (turn number 1) is made by the creator, never by the joiner.
C9_CreatorMovesFirst ==
  /\ [][\A g \in DOMAIN games_db \cap DOMAIN games_db' :
          (games_db[g].status = WAITING /\ games_db'[g].status = IN_PROGRESS)
            => games_db'[g].current_turn = games_db'[g].player_1]_vars
  /\ [](\A g \in DOMAIN games_db :
          \A k \in 1..Len(games_db[g].guesses) :
            games_db[g].guesses[k].turn_number = 1 =>
              /\ games_db[g].guesses[k].guesser_player_id = games_db[g].player_1
              /\ games_db[g].guesses[k].guesser_player_id # games_db[g].player_2)

\* C9 witness: a started game whose first guess (turn number 1) has just
\* been recorded, made by the creator.
C9_Witness ==
  \E g \in DOMAIN games_db :
    /\ Len(games_db[g].guesses) >= 1
    /\ games_db[g].guesses[1].turn_number = 1
    /\ games_db[g].guesses[1].guesser_player_id = games_db[g].player_1
    /\ response.op = "process_guess"
    /\ response.error = "OK"
    /\ response.game_id = g
    /\ response.result.turn_number = 1

\* C10: a lock_number for a player of a game that is not COMPLETED whose
\* readiness flag is already true fails with NumberAlreadyLocked and leaves
\* the player's stored secret (the first locked value) as it was, whatever
\* secret the second call carries.
C10_DoubleLockRejected ==
  [][\A g \in DOMAIN games_db :
       \A p \in Slots(games_db[g]) :
         (/\ games_db[g].status # COMPLETED
          /\ players_db[p].is_ready
          /\ Called("lock_number", g)
          /\ response'.player_id = p)
           => /\ response'.error = "NumberAlreadyLocked"
              /\ players_db'[p] = players_db[p]
              /\ games_db' = games_db]_vars

\* C10 witness: a second lock by a ready player has just been refused; the
\* refused call carried CodeBook[1] and the player still holds the other
\* number it locked first.
C10_Witness ==
  /\ response.op = "lock_number"
  /\ response.error = "NumberAlreadyLocked"
  /\ response.player_id \in DOMAIN players_db
  /\ players_db[response.player_id].is_ready
  /\ players_db[response.player_id].secret_number \in Numbers \ {CodeBook[1]}

\* C11: once a player's secret is set it never changes and once a player's
\* readiness flag is true it never becomes false; in every state a player's
\* secret is present if and only if the player's readiness flag is true.
C11_SecretAndReadinessStable ==
  /\ [](\A p \in DOMAIN players_db :
          players_db[p].secret_number # NoSecret <=> players_db[p].is_ready)
  /\ [][\A p \in DOMAIN players_db :
          /\ p \in DOMAIN players_db'
          /\ players_db[p].secret_number # NoSecret =>
               players_db'[p].secret_number = players_db[p].secret_number
          /\ players_db[p].is_ready => players_db'[p].is_ready]_vars

\* C11 witness: both players of a game hold a secret and guesses have been
\* made since they locked.
C11_Witness ==
  \E g \in DOMAIN games_db :
    /\ games_db[g].turn_count = 2
    /\ \A p \in Slots(games_db[g]) :
         players_db[p].is_ready /\ players_db[p].secret_number \in Numbers
    /\ Cardinality(Slots(games_db[g])) = 2

\* C12: slot 1 is populated in every state and its identifier never
\* changes; slot 2, once populated, is never emptied and never replaced; a
\* join_game on a game whose slot 2 is populated and that is not COMPLETED
\* fails with GameFull and leaves the game unchanged.
C12_SlotsStable ==
  /\ [](\A g \in DOMAIN games_db : games_db[g].player_1 # None)
  /\ [][\A g \in DOMAIN games_db :
          /\ g \in DOMAIN games_db' =>
               /\ games_db'[g].player_1 = games_db[g].player_1
               /\ games_db[g].player_2 # None =>
                    games_db'[g].player_2 = games_db[g].player_2
          /\ (/\ games_db[g].player_2 # None
              /\ games_db[g].status # COMPLETED
              /\ Called("join_game", g))
               => /\ response'.error = "GameFull"
                  /\ games_db' = games_db
                  /\ players_db' = players_db
                  /\ game_guesses_db' = game_guesses_db]_vars

\* C12 witness: a join on a full game in progress has just been refused
\* with GameFull.
C12_Witness ==
  /\ response.op = "join_game"
  /\ response.error = "GameFull"
  /\ response.game_id \in DOMAIN games_db
  /\ games_db[response.game_id].status = IN_PROGRESS
  /\ games_db[response.game_id].player_2 # None

\* C13: a successful join_game puts a fresh player with no secret and
\* readiness false into slot 2 and leaves the status WAITING, and leaves
\* slot 1 (identifier, secret, readiness), current-turn, winner, turn
\* counter and guess sequence unchanged, also when slot 1 had locked its
\* number before the join.
C13_JoinEffect ==
  [][\A g \in DOMAIN games_db :
       Returned("join_game", g) =>
         LET new == response'.player_id
             old == games_db[g]
         IN  /\ old.player_2 = None
             /\ new \notin DOMAIN players_db
             /\ new \in DOMAIN players_db'
             /\ players_db'[new] = Player(NoSecret, FALSE)
             /\ games_db'[g] = [old EXCEPT !.player_2 = new]
             /\ games_db'[g].status = WAITING
             /\ games_db'[g].player_1 = old.player_1
             /\ players_db'[old.player_1] = players_db[old.player_1]
             /\ games_db'[g].current_turn = old.current_turn
             /\ games_db'[g].winner_id = old.winner_id
             /\ games_db'[g].turn_count = old.turn_count
             /\ games_db'[g].guesses = old.guesses
             /\ game_guesses_db' = game_guesses_db]_vars

\* C13 witness: a join has just succeeded on a game whose creator had
\* already locked a number.
C13_Witness ==
  /\ response.op = "join_game"
  /\ response.error = "OK"
  /\ response.game_id \in DOMAIN games_db
  /\ games_db[response.game_id].player_2 = response.player_id
  /\ games_db[response.game_id].status = WAITING
  /\ players_db[games_db[response.game_id].player_1].is_ready
  /\ ~players_db[response.player_id].is_ready

\* C14: in an IN_PROGRESS game a process_guess by the member who does not
\* hold the turn fails with NotYourTurn and records nothing (turn counter,
\* guess sequence, current-turn, status and winner unchanged), whatever the
\* number guessed; hence no player has two consecutive guesses recorded.
C14_NotYourTurn ==
  /\ [][\A g \in DOMAIN games_db :
          \A p \in Slots(games_db[g]) :
            (/\ games_db[g].status = IN_PROGRESS
             /\ games_db[g].current_turn # p
             /\ Called("process_guess", g)
             /\ response'.player_id = p)
              => /\ response'.error = "NotYourTurn"
                 /\ games_db' = games_db
                 /\ game_guesses_db' = game_guesses_db
                 /\ guess_seq' = guess_seq]_vars
  /\ [](\A g \in DOMAIN games_db :
          \A k \in 1..(Len(games_db[g].guesses) - 1) :
            games_db[g].guesses[k].guesser_player_id
              # games_db[g].guesses[k + 1].guesser_player_id)

\* C14 witness: a guess out of turn has just been refused; the refused call
\* carried CodeBook[1], which is the opponent's secret.
C14_Witness ==
  /\ response.op = "process_guess"
  /\ response.error = "NotYourTurn"
  /\ response.game_id \in DOMAIN games_db
  /\ LET game == games_db[response.game_id] IN
       /\ game.status = IN_PROGRESS
       /\ response.player_id \in Slots(game) \ {game.current_turn}
       /\ players_db[game.current_turn].secret_number = CodeBook[1]

\* Every guess stored for any game, in the games and in the guess store.
AllGuesses ==
  UNION {{games_db[g].guesses[k] : k \in 1..Len(games_db[g].guesses)} :
           g \in DOMAIN games_db}
  \cup UNION {{game_guesses_db[g][k] : k \in 1..Len(game_guesses_db[g])} :
                g \in DOMAIN game_guesses_db}

\* C15: a process_guess on a WAITING game fails with GameNotStarted for
\* every player identifier and every number, and records no guess; so no
\* guess is ever scored against a player whose secret is absent.
C15_GuessBeforeStart ==
  /\ [][\A g \in DOMAIN games_db :
          (games_db[g].status = WAITING /\ Called("process_guess", g))
            => /\ response'.error = "GameNotStarted"
               /\ games_db' = games_db
               /\ game_guesses_db' = game_guesses_db
               /\ guess_seq' = guess_seq]_vars
  /\ [](\A r \in AllGuesses :
          /\ r.target_player_id \in DOMAIN players_db
          /\ players_db[r.target_player_id].secret_number # NoSecret)

\* C15 witness: a member of a WAITING game whose opponent has no secret yet
\* has just had a guess refused with GameNotStarted.
C15_Witness ==
  /\ response.op = "process_guess"
  /\ response.error = "GameNotStarted"
  /\ response.game_id \in DOMAIN games_db
  /\ LET game == games_db[response.game_id] IN
       /\ game.status = WAITING
       /\ game.player_2 # None
       /\ response.player_id = game.player_1
       /\ players_db[game.player_2].secret_number = NoSecret

\* C16: a lock_number on a game that is not COMPLETED, or a process_guess on
\* an IN_PROGRESS game, with a player identifier that is in neither slot of
\* the game (also the identifier of a player of another game) fails with
\* PlayerNotInGame and leaves the game and its players unchanged.
C16_PlayerNotInGame ==
  [][\A g \in DOMAIN games_db :
       (/\ response'.player_id \notin Slots(games_db[g])
        /\ \/ games_db[g].status # COMPLETED /\ Called("lock_number", g)
           \/ games_db[g].status = IN_PROGRESS /\ Called("process_guess", g))
         => /\ response'.error = "PlayerNotInGame"
            /\ games_db' = games_db
            /\ players_db' = players_db
            /\ game_guesses_db' = game_guesses_db]_vars

\* C16 witness: the creator of another game has just been refused a lock
\* with PlayerNotInGame.
C16_Witness ==
  /\ response.op = "lock_number"
  /\ response.error = "PlayerNotInGame"
  /\ response.game_id \in DOMAIN games_db
  /\ response.player_id \notin Slots(games_db[response.game_id])
  /\ \E h \in DOMAIN games_db \ {response.game_id} :
       games_db[h].player_1 = response.player_id

\* 1 if the two numbers agree at index i, else 0.
Agree(a, b, i) == IF a[i] = b[i] THEN 1 ELSE 0

\* The number of indices 0..3 (here 1..4) at which a and b agree.
AgreeingPositions(a, b) ==
  Agree(a, b, 1) + Agree(a, b, 2) + Agree(a, b, 3) + Agree(a, b, 4)

\* The number of occurrences of the digit value d in a.
Occurrences(a, d) ==
  (IF a[1] = d THEN 1 ELSE 0) + (IF a[2] = d THEN 1 ELSE 0)
    + (IF a[3] = d THEN 1 ELSE 0) + (IF a[4] = d THEN 1 ELSE 0)

\* The sum over the digit values d..9 of the minimum of the occurrence
\* counts of the value in a and in b.
RECURSIVE CommonFrom(_, _, _)
CommonFrom(d, a, b) ==
  IF d > 9 THEN 0
  ELSE (IF Occurrences(a, d) <= Occurrences(b, d)
          THEN Occurrences(a, d) ELSE Occurrences(b, d))
       + CommonFrom(d + 1, a, b)

\* The general statement of C17: correct_positions is the number of
\* indices at which secret and guess agree, and correct_digits is the sum
\* over the ten digit values of the minimum of the value's occurrence counts
\* in secret and in guess.
ScoreAsDefined ==
  score.result # NoMatch =>
    /\ score.result.correct_positions
         = AgreeingPositions(score.secret, score.guess)
    /\ score.result.correct_digits = CommonFrom(0, score.secret, score.guess)

\* The pair of C17's example has been scored: secret 1123, guess 1111.
ExampleScored ==
  /\ score.secret = <<1, 1, 2, 3>>
  /\ score.guess = <<1, 1, 1, 1>>
  /\ score.result # NoMatch

\* C17 as claimed: for every pair of 4-digit sequences calculate_match
\* returns correct_positions and correct_digits as defined above, so that
\* secret 1123 against guess 1111 gives correct_digits 2 and
\* correct_positions 1.
C17_ScoreAsClaimed ==
  /\ ScoreAsDefined
  /\ ExampleScored =>
       score.result = [correct_digits |-> 2, correct_positions |-> 1]

\* C17 as amended: for every pair of 4-digit sequences calculate_match
\* returns correct_positions and correct_digits as defined above, so that
\* secret 1123 against guess 1111 gives correct_digits 2 and
\* correct_positions 2 (the two numbers agree at the first two indices).
C17_ScoreIsSpecified ==
  /\ ScoreAsDefined
  /\ ExampleScored =>
       score.result = [correct_digits |-> 2, correct_positions |-> 2]

\* C17 witness: secret 1123 has been scored against guess 1111.
C17_Witness ==
  /\ ExampleScored
  /\ score.result.correct_digits = 2
  /\ score.result.correct_positions = AgreeingPositions(score.secret, score.guess)

\* C18: for every pair of 4-digit sequences,
\* 0 <= correct_positions <= correct_digits <= 4.
C18_ScoreBounds ==
  score.result # NoMatch =>
    /\ 0 <= score.result.correct_positions
    /\ score.result.correct_positions <= score.result.correct_digits
    /\ score.result.correct_digits <= 4

\* C18 witness: an exact match has been scored, correct_positions =
\* correct_digits = 4.
C18_Witness ==
  /\ score.secret = score.guess
  /\ score.result = [correct_digits |-> 4, correct_positions |-> 4]

\* C19: scoring is symmetric: calculate_match(a, b) and
\* calculate_match(b, a) return the same correct_digits and the same
\* correct_positions.
C19_ScoreSymmetric ==
  score.result # NoMatch =>
    /\ score.swapped.correct_digits = score.result.correct_digits
    /\ score.swapped.correct_positions = score.result.correct_positions

\* C19 witness: two different numbers with unequal digit multiplicities
\* (1111 and 1123) have been scored in both orders.
C19_Witness ==
  /\ score.secret = <<1, 1, 1, 1>>
  /\ score.guess = <<1, 1, 2, 3>>
  /\ score.result # NoMatch
  /\ score.swapped = score.result

\* C20: a successful process_guess is a win if and only if the number
\* guessed is the opponent's locked secret: correct_positions = 4 exactly
\* when guess = secret, and then correct_digits = 4; a guess that is a
\* permutation of the secret without being equal to it does not win.
C20_WinIffExactMatch ==
  (response.op = "process_guess" /\ response.error = "OK") =>
    /\ response.game_id \in DOMAIN games_db
    /\ LET game == games_db[response.game_id]
           p == response.player_id
           secret == players_db[OtherSlot(game, p)].secret_number
           res == response.result
       IN  /\ res.is_winner <=> response.number = secret
           /\ res.correct_positions = 4 <=> response.number = secret
           /\ response.number = secret => res.correct_digits = 4
           /\ res.is_winner <=> (game.status = COMPLETED /\ game.winner_id = p)

\* C20 witness: a guess that is a permutation of the opponent's secret
\* (correct_digits = 4, correct_positions < 4) has just been recorded and
\* the game goes on.
C20_Witness ==
  /\ response.op = "process_guess"
  /\ response.error = "OK"
  /\ response.result.correct_digits = 4
  /\ response.result.correct_positions < 4
  /\ ~response.result.is_winner
  /\ response.game_id \in DOMAIN games_db
  /\ games_db[response.game_id].status = IN_PROGRESS
  /\ games_db[response.game_id].winner_id = None

\* C21: in every reachable state a game whose winner pointer is present
\* has status COMPLETED, and the winner is the identifier of slot 1 or
\* slot 2 of that same game.
C21_WinnerImpliesCompleted ==
  \A g \in DOMAIN games_db :
    LET game == games_db[g] IN
      game.winner_id # None =>
        /\ game.status = COMPLETED
        /\ game.winner_id \in Slots(game)

\* C21 witness: a stored game has a winner, set by the winning guess of
\* the player in slot 2.
C21_Witness ==
  \E g \in DOMAIN games_db :
    /\ games_db[g].winner_id # None
    /\ games_db[g].winner_id = games_db[g].player_2
    /\ games_db[g].status = COMPLETED

\* C22: the sample game create (Alice) -> join (Bob) -> Alice locks 1234 ->
\* Bob locks 5678 leaves the game IN_PROGRESS with current_turn = Alice;
\* Alice's first guess, 5678, then returns correct_digits = 4,
\* correct_positions = 4, is_winner = true, next_turn absent, and leaves
\* status = COMPLETED, winner = Alice, turn counter = 1.
C22_SampleGame ==
  \A g \in DOMAIN games_db :
    LET game == games_db[g]
        alice == game.player_1
        bob == game.player_2
    IN  (/\ bob # None
         /\ players_db[alice] = Player(CodeBook[1], TRUE)
         /\ players_db[bob] = Player(CodeBook[3], TRUE))
        => /\ Len(game_guesses_db[g]) = 0 =>
                 /\ game.status = IN_PROGRESS
                 /\ game.current_turn = alice
           /\ (/\ Len(game_guesses_db[g]) = 1
               /\ response.op = "process_guess"
               /\ response.game_id = g
               /\ response.player_id = alice
               /\ response.number = CodeBook[3])
              => /\ response.error = "OK"
                 /\ response.result.correct_digits = 4
                 /\ response.result.correct_positions = 4
                 /\ response.result.is_winner
                 /\ response.result.next_turn = None
                 /\ response.result.winner_id = alice
                 /\ game.status = COMPLETED
                 /\ game.winner_id = alice
                 /\ game.turn_count = 1

\* C22 witness: the sample game has been played to its end: Alice (slot 1,
\* secret 1234) has just guessed 5678 against Bob (slot 2, secret 5678) as
\* the first guess of the game.
C22_Witness ==
  /\ response.op = "process_guess"
  /\ response.error = "OK"
  /\ response.number = CodeBook[3]
  /\ response.game_id \in DOMAIN games_db
  /\ LET game == games_db[response.game_id] IN
        /\ response.player_id = game.player_1
        /\ game.player_2 # None
        /\ players_db[game.player_1] = Player(CodeBook[1], TRUE)
        /\ players_db[game.player_2] = Player(CodeBook[3], TRUE)
        /\ Len(game_guesses_db[response.game_id]) = 1
        /\ game.status = COMPLETED

\* A sequence s is an initial part of the sequence t.
IsPrefix(s, t) == Len(s) <= Len(t) /\ \A k \in 1..Len(s) : s[k] = t[k]

\* C23: guess records are append-only and in turn order: the k-th guess
\* recorded in a game carries turn number k (the game's turn counter right
\* after that guess), so the turn numbers of a game are 1..n without gap or
\* duplicate; and no operation other than delete_game changes or removes a
\* recorded guess.
C23_GuessesAppendOnly ==
  /\ [](\A g \in DOMAIN game_guesses_db :
          \A k \in 1..Len(game_guesses_db[g]) :
            game_guesses_db[g][k].turn_number = k)
  /\ [][\A g \in DOMAIN game_guesses_db :
          /\ g \in DOMAIN game_guesses_db' =>
                /\ IsPrefix(game_guesses_db[g], game_guesses_db'[g])
                /\ Len(game_guesses_db'[g]) <= Len(game_guesses_db[g]) + 1
                /\ Len(game_guesses_db'[g]) = Len(game_guesses_db[g]) + 1 =>
                      /\ Returned("process_guess", g)
                      /\ game_guesses_db'[g][Len(game_guesses_db'[g])].turn_number
                           = games_db'[g].turn_count
          /\ g \notin DOMAIN game_guesses_db' => Returned("delete_game", g)
       ]_vars

\* C23 witness: a second guess has just been appended to a game, behind the
\* first one.
C23_Witness ==
  /\ response.op = "process_guess"
  /\ response.error = "OK"
  /\ response.game_id \in DOMAIN game_guesses_db
  /\ Len(game_guesses_db[response.game_id]) = 2
  /\ game_guesses_db[response.game_id][2].guess_id = response.result.guess_id
  /\ response.result.turn_number = 2


\* No call is between two of its persistence calls.
NoCallInProgress == \A c \in Calls : calls[c].pc \in {"idle", "done"}

\* C24: two process_guess calls on the same game whose persistence calls
\* (get_game, add_guess, update_game) interleave leave what some sequential
\* order of the two leaves: once they are over no two recorded guesses of
\* the game share a turn number (two guesses never both succeed from the
\* same current_turn value) and the turn counter is the number of recorded
\* guesses.
C24_GuessesSerialized ==
  NoCallInProgress =>
    \A g \in DOMAIN games_db :
      LET guesses == game_guesses_db[g] IN
        /\ \A i, j \in 1..Len(guesses) :
             i # j => guesses[i].turn_number # guesses[j].turn_number
        /\ games_db[g].turn_count = Len(guesses)

\* C25: when the two players of a game lock their numbers in calls whose
\* get_game / update_game interleave, no update is lost: once both calls
\* have returned, both players are stored ready with the secrets they
\* locked and the game is IN_PROGRESS with current_turn = player 1.
C25_LocksNotLost ==
  \A c, d \in Calls :
    (/\ calls[c].pc = "done" /\ calls[c].op = "lock_number"
     /\ calls[d].pc = "done" /\ calls[d].op = "lock_number"
     /\ calls[c].error = "OK" /\ calls[d].error = "OK"
     /\ calls[c].game_id = calls[d].game_id
     /\ calls[c].player_id # calls[d].player_id)
    => LET game == games_db[calls[c].game_id] IN
         /\ players_db[calls[c].player_id] = Player(calls[c].number, TRUE)
         /\ players_db[calls[d].player_id] = Player(calls[d].number, TRUE)
         /\ game.status = IN_PROGRESS
         /\ game.current_turn = game.player_1

C27_DeleteGame ==
  /\ [][\A g \in GameIds :
          Called("delete_game", g) =>
            IF g \notin DOMAIN games_db
              THEN /\ response'.error = "GameNotFound"
                   /\ UNCHANGED <<games_db, players_db, game_guesses_db>>
              ELSE /\ response'.error = "OK"
                   /\ games_db' = [b \in DOMAIN games_db \ {g} |-> games_db[b]]
                   /\ game_guesses_db' =
                        [b \in DOMAIN game_guesses_db \ {g} |-> game_guesses_db[b]]
                   /\ players_db' = players_db]_vars
  /\ [][\A g \in 1..game_seq :
          g \notin DOMAIN games_db =>
            /\ g \notin DOMAIN games_db'
            /\ response'.game_id = g => response'.error = "GameNotFound"]_vars
  /\ [](\A g \in 1..game_seq :
          g \notin DOMAIN games_db =>
            /\ get_game_status(g).error = "GameNotFound"
            /\ get_game_guesses(g).error = "GameNotFound"
            /\ get_guesses_by_game(g) = <<>>)
  /\ [](\A p \in 1..player_seq : get_player_by_id(p).error = "OK")

\* C27 witness: a game with two players and a recorded guess has just been
\* deleted: no guess record is left and both players are still stored.
C27_Witness ==
  /\ response.op = "delete_game"
  /\ response.error = "OK"
  /\ response.game_id \notin DOMAIN games_db
  /\ guess_seq >= 1
  /\ \A g \in DOMAIN game_guesses_db : game_guesses_db[g] = <<>>
  /\ player_seq = 2
  /\ get_player_by_id(1).error = "OK"
  /\ get_player_by_id(2).error = "OK"

\* C28: create_game always yields a new game with status WAITING, slot 1
\* populated by a fresh player with no secret and readiness false, slot 2
\* absent, current turn absent, winner absent, turn counter 0 and an empty
\* guess sequence, and returns the identifier of that slot-1 player.
C28_CreateGame ==
  response.op = "create_game" =>
    /\ response.error = "OK"
    /\ response.game_id = game_seq
    /\ response.player_id = player_seq
    /\ response.game_id \in DOMAIN games_db
    /\ \A g \in DOMAIN games_db \ {response.game_id} :
         response.player_id \notin Slots(games_db[g])
    /\ games_db[response.game_id] =
         [player_1 |-> response.player_id, player_2 |-> None,
          current_turn |-> None, status |-> WAITING, winner_id |-> None,
          guesses |-> <<>>, turn_count |-> 0]
    /\ get_player_by_id(response.player_id) = Read("OK", Player(NoSecret, FALSE))
    /\ get_game_guesses(response.game_id) = Read("OK", <<>>)

\* C28 witness: a second game has just been created while the first one is
\* stored with its creator ready.
C28_Witness ==
  /\ response.op = "create_game"
  /\ response.error = "OK"
  /\ response.game_id = 2
  /\ 1 \in DOMAIN games_db
  /\ players_db[games_db[1].player_1].is_ready
  /\ games_db[2].status = WAITING

\* Everything the player and game readers return, for every argument, on
\* the store contents (games, players).
AllReads(games, players) ==
  [player_info |-> [a \in GameIds \X PlayerArgs |->
                      get_player_info(games, players, a[1], a[2])],
   both_players_info |-> [g \in GameIds |->
                            get_both_players_info(games, players, g)],
   game_status |-> [g \in GameIds |-> get_game_response(games, players, g)],
   game_list |-> list_games(games, players)]

\* The players with their secret numbers replaced by the given ones.
WithSecrets(players, secrets) ==
  [p \in DOMAIN players |-> [players[p] EXCEPT !.secret_number = secrets[p]]]

\* C29: the player and game readers never expose a secret: on two stores
\* that differ only in the players' secret numbers, get_player_info,
\* get_both_players_info, the game status and the game list return the
\* same.
C29_ReadsHideSecrets ==
  \A secrets \in [DOMAIN players_db -> ScenarioNumbers \cup {NoSecret}] :
    AllReads(games_db, WithSecrets(players_db, secrets))
      = AllReads(games_db, players_db)

\* C29 witness: both players of a game have locked different secrets, and
\* the readers report both of them ready.
C29_Witness ==
  \E g \in DOMAIN games_db :
    /\ games_db[g].player_2 # None
    /\ players_db[games_db[g].player_1].secret_number \in ScenarioNumbers
    /\ players_db[games_db[g].player_2].secret_number \in ScenarioNumbers
    /\ players_db[games_db[g].player_1].secret_number
         # players_db[games_db[g].player_2].secret_number
    /\ LET both == get_both_players_info(games_db, players_db, g) IN
         /\ both.error = "OK"
         /\ both.value.player_1[1].is_ready
         /\ both.value.player_2[1].is_ready

\* C30: lock_number called directly with a secret that is not exactly 4
\* decimal digits fails with InvalidNumberFormat and leaves the player
\* without secret and unready: a lock_number that returned carried a
\* well-formed number, and every stored secret is exactly 4 decimal digits.
C30_MalformedSecretRefused ==
  /\ (response.op = "lock_number" /\ ~is_valid_4_digit_number(response.number))
       => response.error # "OK"
  /\ \A p \in DOMAIN players_db :
       \/ players_db[p] = Player(NoSecret, FALSE)
       \/ is_valid_4_digit_number(players_db[p].secret_number)

\* C31: every recorded guess names as its target the player of the other
\* slot (target # guesser, and guesser and target are the players of slot 1
\* and slot 2), and its correct_digits / correct_positions are the score of
\* the guessed number against the target's locked secret, not against the
\* guesser's own.
C31_GuessTargetsOpponent ==
  \A guess \in AllGuesses :
    LET game == games_db[guess.game_id]
        secret == players_db[guess.target_player_id].secret_number
    IN  /\ guess.target_player_id # guess.guesser_player_id
        /\ {guess.guesser_player_id, guess.target_player_id}
             = {game.player_1, game.player_2}
        /\ guess.correct_positions
             = AgreeingPositions(secret, guess.guessed_number)
        /\ guess.correct_digits = CommonFrom(0, secret, guess.guessed_number)

\* C31 witness: a player has guessed the very number they locked themselves
\* and the record does not show four correct positions: it was scored
\* against the opponent's different secret.
C31_Witness ==
  \E guess \in AllGuesses :
    /\ guess.guessed_number
         = players_db[guess.guesser_player_id].secret_number
    /\ guess.correct_positions < 4
    /\ guess.target_player_id = OtherSlot(games_db[guess.game_id],
                                          guess.guesser_player_id)

\* C32: in every reachable state a game that is IN_PROGRESS or COMPLETED
\* has slot 2 populated and both players with a secret present and
\* readiness true; so every recorded guess was scored against a secret
\* that is present, and the opponent of either player is a stored player.
C32_StartedImpliesBothLocked ==
  /\ \A g \in DOMAIN games_db :
       LET game == games_db[g] IN
         game.status \in {IN_PROGRESS, COMPLETED} =>
           /\ game.player_2 # None
           /\ \A p \in {game.player_1, game.player_2} :
                /\ p \in DOMAIN players_db
                /\ players_db[p].is_ready
                /\ players_db[p].secret_number # NoSecret
                /\ get_opponent(game, p) \in DOMAIN players_db
  /\ \A guess \in AllGuesses :
       /\ guess.target_player_id \in DOMAIN players_db
       /\ players_db[guess.target_player_id].secret_number # NoSecret

\* C32 witness: a game has been started and played to completion.
C32_Witness ==
  \E g \in DOMAIN games_db :
    /\ games_db[g].status = COMPLETED
    /\ games_db[g].turn_count = 2
    /\ BothReady(games_db[g], players_db)

\* The elements of a sequence.
Range(s) == {s[k] : k \in 1..Len(s)}

\* The player who moves at turn k: slot 1 at the odd turns, slot 2 at the
\* even ones.
MoverAt(game, k) == IF k % 2 = 1 THEN game.player_1 ELSE game.player_2

\* C33: guessers strictly alternate starting with the creator: the guess
\* with turn number k was made by slot 1's player when k is odd and by
\* slot 2's when k is even, and while the game is IN_PROGRESS current_turn
\* is slot 1 when the turn counter is even and slot 2 when it is odd.
C33_GuessersAlternate ==
  \A g \in DOMAIN games_db :
    LET game == games_db[g] IN
      /\ \A guess \in Range(game_guesses_db[g]) \cup Range(game.guesses) :
           guess.guesser_player_id = MoverAt(game, guess.turn_number)
      /\ game.status = IN_PROGRESS =>
           game.current_turn = MoverAt(game, game.turn_count + 1)

\* C33 witness: slot 1 and then slot 2 have guessed, the game goes on and
\* the turn is back with slot 1.
C33_Witness ==
  \E g \in DOMAIN games_db :
    /\ games_db[g].status = IN_PROGRESS
    /\ games_db[g].turn_count = 2
    /\ Len(game_guesses_db[g]) = 2
    /\ game_guesses_db[g][1].guesser_player_id = games_db[g].player_1
    /\ game_guesses_db[g][2].guesser_player_id = games_db[g].player_2
    /\ games_db[g].current_turn = games_db[g].player_1

\* C34: a game is COMPLETED if and only if its winner is present; then the
\* last recorded guess was made by the winner and has correct_positions = 4
\* and every earlier one has correct_positions < 4; a game that is WAITING
\* or IN_PROGRESS holds no guess with correct_positions = 4.
C34_CompletedIffWon ==
  \A g \in DOMAIN games_db :
    LET game == games_db[g]
        guesses == game_guesses_db[g]
        n == Len(guesses)
    IN  /\ game.status = COMPLETED <=> game.winner_id # None
        /\ game.status = COMPLETED =>
             /\ n >= 1
             /\ guesses[n].guesser_player_id = game.winner_id
             /\ guesses[n].correct_positions = 4
             /\ \A k \in 1..(n - 1) : guesses[k].correct_positions < 4
        /\ game.status \in {WAITING, IN_PROGRESS} =>
             \A k \in 1..n : guesses[k].correct_positions # 4

\* C34 witness: a game was won by slot 2 with the second guess, after a
\* first guess that missed.
C34_Witness ==
  \E g \in DOMAIN games_db :
    /\ games_db[g].status = COMPLETED
    /\ games_db[g].winner_id = games_db[g].player_2
    /\ Len(game_guesses_db[g]) = 2
    /\ game_guesses_db[g][1].correct_positions < 4
    /\ game_guesses_db[g][2].correct_positions = 4

====
